---------------------------- MODULE Spec2Model ----------------------------
(***************************************************************************)
(* Coffee Processing Plant Management System                              *)
(* (src/coffee_processing_plant_system.py).                               *)
(*                                                                         *)
(* The program keeps three comma-delimited text files: the bean inventory, *)
(* the processing records and the operations log.  Every operation opens  *)
(* the files it needs, reads or writes them and returns; nothing is kept  *)
(* in memory between calls.  The state of the model is therefore the      *)
(* content of the files, plus the last call made and what it returned.    *)
(*                                                                         *)
(* Text is a sequence of tokens.  A token is either one of the characters *)
(* the code treats specially (",", " ", the line feed, ".", "-", a digit) *)
(* or a run of other characters written as one word ("Arabica").          *)
(* Formatting and parsing work on these sequences as the code's f-strings, *)
(* strip(), split() and float() work on characters.                       *)
(***************************************************************************)
EXTENDS Integers, Sequences, FiniteSets, TLC

VARIABLES
    files,   \* the content of each file
    op,      \* the function called last
    args,    \* the arguments it was called with
    ret,     \* what it returned
    added,   \* the batch ids add_bean_batch has returned True for
    calls    \* of each writer that runs beside another, the call it is in

vars == <<files, op, args, ret, added, calls>>

-----------------------------------------------------------------------------
(* Bounds of the model.                                                    *)

MaxBatchLines == 2

MaxRecordLines == 2

MaxLogLines == 3

(* Lines of a file that is read without having been written by the calls.  *)
MaxFileLines == 2

(* Entries asked of read_recent_logs.                                      *)
MaxCount == 2

-----------------------------------------------------------------------------
(* Text.                                                                   *)

NL == "\n"

COMMA == ","

SP == " "

Whitespace == {SP, NL}

DigitChars == <<"0", "1", "2", "3", "4", "5", "6", "7", "8", "9">>

IsDigit(c) == \E i \in 1..10 : DigitChars[i] = c

DigitVal(c) == (CHOOSE i \in 1..10 : DigitChars[i] = c) - 1

(* The Python values that occur: str, int and float.  The numbers of the   *)
(* model are whole numbers; a float is written with its ".0".              *)
PyStr(s) == [type |-> "str", val |-> s]

PyInt(n) == [type |-> "int", val |-> n]

PyFloat(n) == [type |-> "float", val |-> n]

None == [type |-> "NoneType"]

IsNumber(v) == v.type \in {"int", "float"}

(* Python's ==: strings by content, numbers by value, never across.        *)
PyEq(a, b) ==
    \/ a.type = "str" /\ b.type = "str" /\ a.val = b.val
    \/ IsNumber(a) /\ IsNumber(b) /\ a.val = b.val

RECURSIVE DigitsOf(_)
DigitsOf(n) ==
    IF n < 10 THEN <<DigitChars[n + 1]>>
    ELSE DigitsOf(n \div 10) \o <<DigitChars[(n % 10) + 1]>>

IntText(n) == IF n < 0 THEN <<"-">> \o DigitsOf(-n) ELSE DigitsOf(n)

(* What an f-string writes for {v}: str(v).                                *)
Format(v) ==
    CASE v.type = "str" -> v.val
      [] v.type = "int" -> IntText(v.val)
      [] v.type = "float" -> IntText(v.val) \o <<".", "0">>
      [] v.type = "NoneType" -> <<"None">>

RECURSIVE LStrip(_)
LStrip(s) ==
    IF s # <<>> /\ Head(s) \in Whitespace THEN LStrip(Tail(s)) ELSE s

RECURSIVE RStrip(_)
RStrip(s) ==
    IF s # <<>> /\ s[Len(s)] \in Whitespace
    THEN RStrip(SubSeq(s, 1, Len(s) - 1))
    ELSE s

(* str.strip()                                                             *)
Strip(s) == RStrip(LStrip(s))

(* str.split(sep, maxsplit): maxsplit < 0 is no limit.  Always returns at  *)
(* least one part.  The scan is at token i of s and the part being read    *)
(* starts at token start; next is the separator the scan meets first.      *)
RECURSIVE SplitFrom(_, _, _, _, _)
SplitFrom(s, sep, maxsplit, i, start) ==
    IF maxsplit = 0 \/ \A j \in i..Len(s) : s[j] # sep
    THEN <<SubSeq(s, start, Len(s))>>
    ELSE LET next == CHOOSE j \in i..Len(s) :
                         s[j] = sep /\ \A k \in i..(j - 1) : s[k] # sep
         IN <<SubSeq(s, start, next - 1)>>
                \o SplitFrom(s, sep, maxsplit - 1, next + 1, next + 1)

SplitMax(s, sep, maxsplit) == SplitFrom(s, sep, maxsplit, 1, 1)

Split(s, sep) == SplitMax(s, sep, -1)

(* The lines a text file yields when iterated (or by readlines()), each    *)
(* without its line feed: a last line without a line feed is a line, and   *)
(* nothing follows the final line feed.                                    *)
FileLines(data) ==
    LET parts == Split(data, NL)
    IN IF parts[Len(parts)] = <<>>
       THEN SubSeq(parts, 1, Len(parts) - 1)
       ELSE parts

(* float(text).  ok is FALSE where float() raises ValueError.  The model   *)
(* reads whole numbers: digits, an optional sign, an optional ".0".        *)
RECURSIVE DigitsValue(_)
DigitsValue(s) ==
    IF s = <<>> THEN 0
    ELSE 10 * DigitsValue(SubSeq(s, 1, Len(s) - 1)) + DigitVal(s[Len(s)])

ParseFloat(text) ==
    LET t == Strip(text)
        neg == t # <<>> /\ Head(t) = "-"
        u == IF neg THEN Tail(t) ELSE t
        p == Split(u, ".")
        whole == p[1]
        okWhole == whole # <<>> /\ \A i \in 1..Len(whole) : IsDigit(whole[i])
        okFrac == \/ Len(p) = 1
                  \/ Len(p) = 2 /\ \A i \in 1..Len(p[2]) : p[2][i] = "0"
    IN IF okWhole /\ okFrac
       THEN [ok |-> TRUE,
             val |-> IF neg THEN -DigitsValue(whole) ELSE DigitsValue(whole)]
       ELSE [ok |-> FALSE, val |-> 0]

-----------------------------------------------------------------------------
(* The files.  A file is absent or holds text.                             *)

InventoryPath == "bean_inventory.txt"

ProcessingPath == "processing_records.txt"

LogPath == "operations_log.txt"

(* The files a caller names in place of the default ones.                  *)
CustomInventoryPath == "test_inventory.txt"

CustomProcessingPath == "test_processing.txt"

Paths ==
    {InventoryPath, ProcessingPath, LogPath, CustomInventoryPath, CustomProcessingPath}

NoFile == [exists |-> FALSE, data |-> <<>>]

(* As AppendText, but opening the file with "w": the text replaces what    *)
(* the file held.                                                          *)
AppendText_Truncating(fsys, path, text) ==
    [fsys EXCEPT ![path] = [exists |-> TRUE, data |-> text]]

(* open(path, "a") then write(text): creates the file when it is absent.   *)
AppendText(fsys, path, text) ==
    [fsys EXCEPT ![path] = [exists |-> TRUE, data |-> @.data \o text]]

(* As WriteText, but opening the file with "a": the text follows what the  *)
(* file held.                                                              *)
WriteText_Appending(fsys, path, text) ==
    [fsys EXCEPT ![path] = [exists |-> TRUE, data |-> @.data \o text]]

(* open(path, "w") then write(text): replaces the content.                 *)
WriteText(fsys, path, text) ==
    [fsys EXCEPT ![path] = [exists |-> TRUE, data |-> text]]

RECURSIVE Concat(_)
Concat(seqs) == IF seqs = <<>> THEN <<>> ELSE Head(seqs) \o Concat(Tail(seqs))

-----------------------------------------------------------------------------
(* File reading functions.                                                 *)

LineParts(line) == Split(Strip(line), COMMA)

(* As InventoryLoop, but leaving the loop at an empty or a short line.     *)
RECURSIVE InventoryLoop_StopAtShort(_, _)
InventoryLoop_StopAtShort(lines, inventory) ==
    IF lines = <<>> THEN inventory
    ELSE LET parts == LineParts(Head(lines))
             weight == ParseFloat(parts[5])
         IN IF Strip(Head(lines)) = <<>> \/ Len(parts) < 6
            THEN inventory
            ELSE IF ~weight.ok THEN <<>>
            ELSE InventoryLoop_StopAtShort(Tail(lines),
                     Append(inventory,
                            [batch_id |-> PyStr(parts[1]),
                             date |-> PyStr(parts[2]),
                             farmer_id |-> PyStr(parts[3]),
                             bean_type |-> PyStr(parts[4]),
                             weight_kg |-> PyFloat(weight.val),
                             status |-> PyStr(parts[6])]))

(* The loop of read_inventory over the lines left to read: an empty line   *)
(* and a line of fewer than six fields are skipped, and a weight float()   *)
(* rejects raises, which ends the loop and drops the batches read so far.  *)
RECURSIVE InventoryLoop(_, _)
InventoryLoop(lines, inventory) ==
    IF lines = <<>> THEN inventory
    ELSE LET parts == LineParts(Head(lines))
             weight == ParseFloat(parts[5])
         IN IF Strip(Head(lines)) = <<>> \/ Len(parts) < 6
            THEN InventoryLoop(Tail(lines), inventory)
            ELSE IF ~weight.ok THEN <<>>
            ELSE InventoryLoop(Tail(lines),
                     Append(inventory,
                            [batch_id |-> PyStr(parts[1]),
                             date |-> PyStr(parts[2]),
                             farmer_id |-> PyStr(parts[3]),
                             bean_type |-> PyStr(parts[4]),
                             weight_kg |-> PyFloat(weight.val),
                             status |-> PyStr(parts[6])]))

(* A missing file reads as an empty list.                                  *)
read_inventory(fsys, file_path) ==
    IF ~fsys[file_path].exists THEN <<>>
    ELSE InventoryLoop(FileLines(fsys[file_path].data), <<>>)

(* The loop of read_processing_records: as InventoryLoop, with five fields. *)
RECURSIVE ProcessingLoop(_, _)
ProcessingLoop(lines, records) ==
    IF lines = <<>> THEN records
    ELSE LET parts == LineParts(Head(lines))
             weight == ParseFloat(parts[5])
         IN IF Strip(Head(lines)) = <<>> \/ Len(parts) < 5
            THEN ProcessingLoop(Tail(lines), records)
            ELSE IF ~weight.ok THEN <<>>
            ELSE ProcessingLoop(Tail(lines),
                     Append(records,
                            [batch_id |-> PyStr(parts[1]),
                             process_type |-> PyStr(parts[2]),
                             start_date |-> PyStr(parts[3]),
                             end_date |-> PyStr(parts[4]),
                             weight_after |-> PyFloat(weight.val)]))

read_processing_records(fsys, file_path) ==
    IF ~fsys[file_path].exists THEN <<>>
    ELSE ProcessingLoop(FileLines(fsys[file_path].data), <<>>)

(* The first batch with the id, or None.                                   *)
RECURSIVE find_in(_, _)
find_in(inventory, batch_id) ==
    IF inventory = <<>> THEN None
    ELSE IF PyEq(Head(inventory).batch_id, batch_id) THEN Head(inventory)
    ELSE find_in(Tail(inventory), batch_id)

find_batch_by_id(fsys, batch_id, file_path) ==
    find_in(read_inventory(fsys, file_path), batch_id)

-----------------------------------------------------------------------------
(* Logging functions.                                                      *)

(* datetime.now().strftime("%Y-%m-%d %H:%M:%S"): the clock readings of the *)
(* model.                                                                  *)
Timestamps == {<<"2023-05-15", SP, "10:00:00">>}

log_operation(fsys, operation, details, log_file_path, now) ==
    LET log_entry == now \o <<COMMA>> \o Format(operation) \o <<COMMA>>
                         \o Format(details) \o <<NL>>
    IN [files |-> AppendText(fsys, log_file_path, log_entry), ret |-> TRUE]

-----------------------------------------------------------------------------
(* File writing functions.  Each returns the files it leaves and the value *)
(* it returns.                                                             *)

BatchFields ==
    <<"batch_id", "date", "farmer_id", "bean_type", "weight_kg", "status">>

ProcessingFields_NoWeight == <<"batch_id", "process_type", "start_date", "end_date">>

ProcessingFields ==
    <<"batch_id", "process_type", "start_date", "end_date", "weight_after">>

(* The fields of a dict joined by commas, with the line feed.              *)
RECURSIVE CsvLine(_, _)
CsvLine(data, fields) ==
    IF Len(fields) = 1 THEN Format(data[fields[1]]) \o <<NL>>
    ELSE Format(data[fields[1]]) \o <<COMMA>> \o CsvLine(data, Tail(fields))

(* A required field is not in the dict.                                    *)
MissingField(data, fields) == \E i \in 1..Len(fields) : fields[i] \notin DOMAIN data

(* existing = find_batch_by_id(...); if existing: a batch dict is never    *)
(* empty, so it is true whenever a batch was found.                        *)
BatchExists_Never(fsys, batch_id, file_path) == FALSE

BatchExists(fsys, batch_id, file_path) ==
    find_batch_by_id(fsys, batch_id, file_path) # None

(* As add_bean_batch, but logging the call before the batch is looked up.  *)
add_bean_batch_LogFirst(fsys, batch_data, file_path, now) ==
    IF MissingField(batch_data, BatchFields)
    THEN [files |-> fsys, ret |-> FALSE]
    ELSE LET details == PyStr(<<"Added", SP, "batch", SP>>
                                \o Format(batch_data.batch_id))
             logged == log_operation(fsys, PyStr(<<"add_batch">>), details,
                                     LogPath, now).files
         IN IF BatchExists(fsys, batch_data.batch_id, file_path)
            THEN [files |-> logged, ret |-> FALSE]
            ELSE [files |-> AppendText(logged, file_path,
                                       CsvLine(batch_data, BatchFields)),
                  ret |-> TRUE]

add_bean_batch(fsys, batch_data, file_path, now) ==
    IF MissingField(batch_data, BatchFields)
    THEN [files |-> fsys, ret |-> FALSE]
    ELSE IF BatchExists(fsys, batch_data.batch_id, file_path)
    THEN [files |-> fsys, ret |-> FALSE]
    ELSE LET line == CsvLine(batch_data, BatchFields)
             written == AppendText(fsys, file_path, line)
             details == PyStr(<<"Added", SP, "batch", SP>>
                                \o Format(batch_data.batch_id))
         IN [files |-> log_operation(written, PyStr(<<"add_batch">>), details,
                                     LogPath, now).files,
             ret |-> TRUE]

(* As SetStatus, but without the break: every batch with the id gets the   *)
(* new status.                                                             *)
SetStatus_All(inventory, batch_id, new_status) ==
    [i \in 1..Len(inventory) |->
        IF PyEq(inventory[i].batch_id, batch_id)
        THEN [inventory[i] EXCEPT !.status = new_status]
        ELSE inventory[i]]

(* The loop of update_batch_status: the first batch with the id gets the  *)
(* new status, and the loop stops there.                                   *)
RECURSIVE SetStatus(_, _, _)
SetStatus(inventory, batch_id, new_status) ==
    IF inventory = <<>> THEN <<>>
    ELSE IF PyEq(Head(inventory).batch_id, batch_id)
    THEN <<[Head(inventory) EXCEPT !.status = new_status]>> \o Tail(inventory)
    ELSE <<Head(inventory)>> \o SetStatus(Tail(inventory), batch_id, new_status)

(* As BatchLines, but with the weight of the first batch written for every *)
(* batch.                                                                  *)
BatchLines_FirstWeight(inventory) ==
    Concat([i \in 1..Len(inventory) |->
               CsvLine([inventory[i] EXCEPT !.weight_kg = inventory[1].weight_kg],
                       BatchFields)])

(* The loop that writes the batches back, one line each.                   *)
RECURSIVE BatchLines(_)
BatchLines(inventory) ==
    IF inventory = <<>> THEN <<>>
    ELSE CsvLine(Head(inventory), BatchFields) \o BatchLines(Tail(inventory))

(* As update_batch_status, but without the return when no batch has the id: *)
(* the file is written back and the call logged all the same.              *)
update_batch_status_NoReturn(fsys, batch_id, new_status, file_path, now) ==
    LET inventory == read_inventory(fsys, file_path)
        batch_found == find_in(inventory, batch_id) # None
        written == WriteText(fsys, file_path,
                             BatchLines(SetStatus(inventory, batch_id, new_status)))
        details == PyStr(<<"Updated", SP, "batch", SP>> \o Format(batch_id)
                           \o <<SP, "status", SP, "to", SP>> \o Format(new_status))
    IN [files |-> log_operation(written, PyStr(<<"update_status">>), details,
                                LogPath, now).files,
        ret |-> batch_found]

update_batch_status(fsys, batch_id, new_status, file_path, now) ==
    LET inventory == read_inventory(fsys, file_path)
        batch_found == find_in(inventory, batch_id) # None
        written == WriteText(fsys, file_path,
                             BatchLines(SetStatus(inventory, batch_id, new_status)))
        details == PyStr(<<"Updated", SP, "batch", SP>> \o Format(batch_id)
                           \o <<SP, "status", SP, "to", SP>> \o Format(new_status))
    IN IF ~batch_found THEN [files |-> fsys, ret |-> FALSE]
       ELSE [files |-> log_operation(written, PyStr(<<"update_status">>), details,
                                     LogPath, now).files,
             ret |-> TRUE]

(* As record_processing_stage, but returning what the status update        *)
(* returned.                                                               *)
record_processing_stage_Checked(fsys, processing_data, file_path, now1, now2) ==
    IF MissingField(processing_data, ProcessingFields)
    THEN [files |-> fsys, ret |-> FALSE]
    ELSE LET line == CsvLine(processing_data, ProcessingFields)
             written == AppendText(fsys, file_path, line)
             update == update_batch_status(written, processing_data.batch_id,
                                           processing_data.process_type,
                                           InventoryPath, now1)
             details == PyStr(<<"Recorded", SP>>
                                \o Format(processing_data.process_type)
                                \o <<SP, "for", SP, "batch", SP>>
                                \o Format(processing_data.batch_id))
         IN [files |-> log_operation(update.files, PyStr(<<"record_processing">>),
                                     details, LogPath, now2).files,
             ret |-> update.ret]

(* As record_processing_stage, but with the status update going to the     *)
(* caller's inventory when the stage goes to the caller's processing       *)
(* records.                                                                *)
record_processing_stage_CallerInventory(fsys, processing_data, file_path, now1, now2) ==
    IF MissingField(processing_data, ProcessingFields)
    THEN [files |-> fsys, ret |-> FALSE]
    ELSE LET line == CsvLine(processing_data, ProcessingFields)
             written == AppendText(fsys, file_path, line)
             inventory_path == IF file_path = ProcessingPath THEN InventoryPath
                               ELSE CustomInventoryPath
             updated == update_batch_status(written, processing_data.batch_id,
                                            processing_data.process_type,
                                            inventory_path, now1).files
             details == PyStr(<<"Recorded", SP>>
                                \o Format(processing_data.process_type)
                                \o <<SP, "for", SP, "batch", SP>>
                                \o Format(processing_data.batch_id))
         IN [files |-> log_operation(updated, PyStr(<<"record_processing">>),
                                     details, LogPath, now2).files,
             ret |-> TRUE]

(* The status update always goes to the default inventory file, and its    *)
(* result is not looked at.                                                *)
record_processing_stage(fsys, processing_data, file_path, now1, now2) ==
    IF MissingField(processing_data, ProcessingFields)
    THEN [files |-> fsys, ret |-> FALSE]
    ELSE LET line == CsvLine(processing_data, ProcessingFields)
             written == AppendText(fsys, file_path, line)
             updated == update_batch_status(written, processing_data.batch_id,
                                            processing_data.process_type,
                                            InventoryPath, now1).files
             details == PyStr(<<"Recorded", SP>>
                                \o Format(processing_data.process_type)
                                \o <<SP, "for", SP, "batch", SP>>
                                \o Format(processing_data.batch_id))
         IN [files |-> log_operation(updated, PyStr(<<"record_processing">>),
                                     details, LogPath, now2).files,
             ret |-> TRUE]

-----------------------------------------------------------------------------
(* Analysis functions.  A dict is the sequence of its items, in insertion  *)
(* order.                                                                  *)

EmptyDict == <<>>

HasKey(dict, key) == \E i \in 1..Len(dict) : dict[i].key = key

Get(dict, key) == dict[CHOOSE i \in 1..Len(dict) : dict[i].key = key].value

Put(dict, key, value) ==
    IF HasKey(dict, key)
    THEN [i \in 1..Len(dict) |->
              IF dict[i].key = key THEN [key |-> key, value |-> value] ELSE dict[i]]
    ELSE Append(dict, [key |-> key, value |-> value])

(* As WeightBy, but with dict[key] = weight in place of the +=.            *)
RECURSIVE WeightBy_Last(_, _, _)
WeightBy_Last(inventory, field, dict) ==
    IF inventory = <<>> THEN dict
    ELSE WeightBy_Last(Tail(inventory), field,
                       Put(dict, Head(inventory)[field].val,
                           Head(inventory).weight_kg.val))

(* if key not in dict: dict[key] = 0; dict[key] += weight, over the        *)
(* batches in order.                                                       *)
RECURSIVE WeightBy(_, _, _)
WeightBy(inventory, field, dict) ==
    IF inventory = <<>> THEN dict
    ELSE LET key == Head(inventory)[field].val
             sofar == IF HasKey(dict, key) THEN Get(dict, key) ELSE 0
         IN WeightBy(Tail(inventory), field,
                     Put(dict, key, sofar + Head(inventory).weight_kg.val))

(* As TotalWeight, but the weight of the first batch alone.                *)
TotalWeight_First(inventory) ==
    IF inventory = <<>> THEN 0 ELSE Head(inventory).weight_kg.val

(* sum(batch["weight_kg"] for batch in inventory)                          *)
RECURSIVE TotalWeight(_)
TotalWeight(inventory) ==
    IF inventory = <<>> THEN 0
    ELSE TotalWeight(SubSeq(inventory, 1, Len(inventory) - 1))
           + inventory[Len(inventory)].weight_kg.val

SummaryOf(inventory) ==
    [total_batches |-> Len(inventory),
     total_weight |-> TotalWeight(inventory),
     bean_types |-> WeightBy(inventory, "bean_type", EmptyDict),
     stages |-> WeightBy(inventory, "status", EmptyDict)]

(* As calculate_inventory_summary, without the return of None for an empty *)
(* inventory.                                                              *)
calculate_inventory_summary_NoNone(fsys, file_path) ==
    SummaryOf(read_inventory(fsys, file_path))

calculate_inventory_summary(fsys, file_path) ==
    LET inventory == read_inventory(fsys, file_path)
    IN IF inventory = <<>> THEN None ELSE SummaryOf(inventory)

(* The records grouped by process type, the groups in the order their      *)
(* types first occur and the records of a group in file order.             *)
RECURSIVE GroupByType(_, _)
GroupByType(records, dict) ==
    IF records = <<>> THEN dict
    ELSE LET key == Head(records).process_type.val
             sofar == IF HasKey(dict, key) THEN Get(dict, key) ELSE <<>>
         IN GroupByType(Tail(records), Put(dict, key, Append(sofar, Head(records))))

(* n / d rounded to the nearest whole number, d > 0.                       *)
RoundDiv(n, d) == (n + (d \div 2)) \div d

RECURSIVE GCD(_, _)
GCD(a, b) == IF b = 0 THEN a ELSE GCD(b, a % b)

(* The fraction n / d in lowest terms with d > 0, d # 0.                   *)
Fraction(n, d) ==
    LET g == GCD(IF n < 0 THEN 0 - n ELSE n, IF d < 0 THEN 0 - d ELSE d)
    IN IF d < 0 THEN [num |-> (0 - n) \div g, den |-> (0 - d) \div g]
       ELSE [num |-> n \div g, den |-> d \div g]

RECURSIVE Sum(_)
Sum(numbers) == IF numbers = <<>> THEN 0 ELSE Head(numbers) + Sum(Tail(numbers))

(* As TypeYield, but passing over a batch of weight 0 as over a batch that *)
(* is not found.                                                           *)
RECURSIVE TypeYield_SkipZero(_, _, _, _)
TypeYield_SkipZero(fsys, type_records, inventory_path, acc) ==
    IF type_records = <<>> THEN acc
    ELSE LET record == Head(type_records)
             batch == find_batch_by_id(fsys, record.batch_id, inventory_path)
         IN IF batch = None \/ batch.weight_kg.val = 0
            THEN TypeYield_SkipZero(fsys, Tail(type_records), inventory_path, acc)
            ELSE TypeYield_SkipZero(fsys, Tail(type_records), inventory_path,
                     [total |-> Fraction(acc.total.num * batch.weight_kg.val
                                           + record.weight_after.val * acc.total.den,
                                         acc.total.den * batch.weight_kg.val),
                      count |-> acc.count + 1,
                      failed |-> FALSE])

(* As TypeYield, but counting the records whose batch is not found too.    *)
RECURSIVE TypeYield_CountAll(_, _, _, _)
TypeYield_CountAll(fsys, type_records, inventory_path, acc) ==
    IF type_records = <<>> \/ acc.failed THEN acc
    ELSE LET record == Head(type_records)
             batch == find_batch_by_id(fsys, record.batch_id, inventory_path)
         IN IF batch = None
            THEN TypeYield_CountAll(fsys, Tail(type_records), inventory_path,
                     [acc EXCEPT !.count = acc.count + 1])
            ELSE IF batch.weight_kg.val = 0
            THEN [acc EXCEPT !.failed = TRUE]
            ELSE TypeYield_CountAll(fsys, Tail(type_records), inventory_path,
                     [total |-> Fraction(acc.total.num * batch.weight_kg.val
                                           + record.weight_after.val * acc.total.den,
                                         acc.total.den * batch.weight_kg.val),
                      count |-> acc.count + 1,
                      failed |-> FALSE])

(* The loop over the records of one process type: acc.total is the sum of  *)
(* weight_after / weight_kg so far, an exact fraction, acc.count the       *)
(* number of records whose batch was found, and acc.failed is TRUE once a  *)
(* weight_kg of 0 has made the division raise.                             *)
RECURSIVE TypeYield(_, _, _, _)
TypeYield(fsys, type_records, inventory_path, acc) ==
    IF type_records = <<>> \/ acc.failed THEN acc
    ELSE LET record == Head(type_records)
             batch == find_batch_by_id(fsys, record.batch_id, inventory_path)
         IN IF batch = None
            THEN TypeYield(fsys, Tail(type_records), inventory_path, acc)
            ELSE IF batch.weight_kg.val = 0
            THEN [acc EXCEPT !.failed = TRUE]
            ELSE TypeYield(fsys, Tail(type_records), inventory_path,
                     [total |-> Fraction(acc.total.num * batch.weight_kg.val
                                           + record.weight_after.val * acc.total.den,
                                         acc.total.den * batch.weight_kg.val),
                      count |-> acc.count + 1,
                      failed |-> FALSE])

(* As AverageYield, but without the division by count.                     *)
AverageYield_Total(acc) == RoundDiv(10000 * acc.total.num, acc.total.den)

(* As AverageYield, but rounded to a whole percent.                        *)
AverageYield_Whole(acc) ==
    100 * RoundDiv(100 * acc.total.num, acc.total.den * acc.count)

(* round(total_yield_pct / count, 2), in hundredths of a percent: 9833 is  *)
(* 98.33.                                                                  *)
AverageYield(acc) == RoundDiv(10000 * acc.total.num, acc.total.den * acc.count)

(* The loop over the process types: a type none of whose batches was found *)
(* gets no entry, and a division that raises ends the call with an empty   *)
(* dict.                                                                   *)
RECURSIVE YieldsOf(_, _, _, _)
YieldsOf(fsys, process_types, inventory_path, yields) ==
    IF process_types = <<>> THEN yields
    ELSE LET acc == TypeYield(fsys, Head(process_types).value, inventory_path,
                              [total |-> [num |-> 0, den |-> 1], count |-> 0,
                               failed |-> FALSE])
         IN IF acc.failed THEN EmptyDict
            ELSE YieldsOf(fsys, Tail(process_types), inventory_path,
                     IF acc.count > 0
                     THEN Put(yields, Head(process_types).key,
                              [average_yield_percentage |-> AverageYield(acc),
                               count |-> acc.count])
                     ELSE yields)

calculate_processing_yields(fsys, inventory_path, processing_path) ==
    YieldsOf(fsys,
             GroupByType(read_processing_records(fsys, processing_path), EmptyDict),
             inventory_path, EmptyDict)

(* As LastLines, but lines[:count], the first lines of the file.           *)
LastLines_First(lines, count) ==
    SubSeq(lines, 1, IF Len(lines) > count THEN count ELSE Len(lines))

(* lines[-count:]                                                          *)
LastLines(lines, count) ==
    LET start == IF count > 0
                 THEN (IF Len(lines) > count THEN Len(lines) - count ELSE 0)
                 ELSE (IF -count < Len(lines) THEN -count ELSE Len(lines))
    IN SubSeq(lines, start + 1, Len(lines))

Reverse(seq) == [i \in 1..Len(seq) |-> seq[Len(seq) + 1 - i]]

LogOfLine(line) ==
    LET parts == SplitMax(Strip(line), COMMA, 2)
    IN [timestamp |-> PyStr(parts[1]),
        operation |-> PyStr(parts[2]),
        details |-> PyStr(parts[3])]

read_recent_logs(fsys, count, log_file_path) ==
    LET lines == LastLines(FileLines(fsys[log_file_path].data), count)
        whole == SelectSeq(lines,
                           LAMBDA line : Len(SplitMax(Strip(line), COMMA, 2)) >= 3)
    IN IF ~fsys[log_file_path].exists THEN <<>>
       ELSE Reverse([i \in 1..Len(whole) |-> LogOfLine(whole[i])])

-----------------------------------------------------------------------------
(* The calls the model makes.                                              *)

(* A dict without some of its keys.                                        *)
Restrict(data, keys) == [k \in keys |-> data[k]]

Range(seq) == {seq[i] : i \in 1..Len(seq)}

BatchIds == {PyStr(<<"B001">>), PyStr(<<"B002">>), PyStr(<<SP, "B001">>)}

SampleBatch ==
    [batch_id |-> PyStr(<<"B001">>), date |-> PyStr(<<"2023-05-15">>),
     farmer_id |-> PyStr(<<"F042">>), bean_type |-> PyStr(<<"Arabica">>),
     weight_kg |-> PyInt(250), status |-> PyStr(<<"received">>)]

(* Complete batches: two plain ones, one whose id starts with a space and  *)
(* one whose status holds a comma.                                         *)
FullBatches ==
    {SampleBatch,
     [SampleBatch EXCEPT !.batch_id = PyStr(<<"B002">>), !.weight_kg = PyInt(300)],
     [SampleBatch EXCEPT !.batch_id = PyStr(<<SP, "B001">>)],
     [SampleBatch EXCEPT !.batch_id = PyStr(<<"B002">>),
                         !.status = PyStr(<<"received", COMMA, "wet">>)]}

(* Complete batches, and batches with one key missing.                     *)
BatchInputs ==
    FullBatches
      \cup {Restrict(SampleBatch, DOMAIN SampleBatch \ {f}) : f \in DOMAIN SampleBatch}

(* Status updates: plain ones for each id, and one whose status holds a    *)
(* comma.                                                                  *)
StatusUpdates ==
    {[batch_id |-> id, new_status |-> PyStr(<<"washing">>)] : id \in BatchIds}
      \cup {[batch_id |-> PyStr(<<"B001">>),
             new_status |-> PyStr(<<"drying", COMMA, "sun">>)]}

SampleProcessing ==
    [batch_id |-> PyStr(<<"B001">>), process_type |-> PyStr(<<"washing">>),
     start_date |-> PyStr(<<"2023-05-16">>), end_date |-> PyStr(<<"2023-05-17">>),
     weight_after |-> PyInt(245)]

(* Complete stages: plain ones for both ids and one whose process type     *)
(* holds a comma.                                                          *)
FullProcessings ==
    {SampleProcessing,
     [SampleProcessing EXCEPT !.batch_id = PyStr(<<"B002">>),
                              !.process_type = PyStr(<<"drying">>)],
     [SampleProcessing EXCEPT !.process_type = PyStr(<<"drying", COMMA, "sun">>)]}

(* Complete stages, and stages with one key missing.                       *)
ProcessingInputs ==
    FullProcessings
      \cup {Restrict(SampleProcessing, DOMAIN SampleProcessing \ {f}) :
               f \in DOMAIN SampleProcessing}

(* The size of a file, in lines: its line feeds.                           *)
LineCount(fsys, path) ==
    Cardinality({i \in 1..Len(fsys[path].data) : fsys[path].data[i] = NL})

WithinBounds(fsys) ==
    /\ LineCount(fsys, InventoryPath) <= MaxBatchLines
    /\ LineCount(fsys, ProcessingPath) <= MaxRecordLines
    /\ LineCount(fsys, LogPath) <= MaxLogLines

(* The writers that may run side by side, each a process of its own with   *)
(* the same files.                                                         *)
Writers == {1, 2}

(* A writer between calls: name, data and ret are of the call it made      *)
(* last.                                                                   *)
Returned(name, data, result) ==
    [pc |-> "idle", name |-> name, data |-> data, inventory |-> <<>>, ret |-> result]

NoCalls == [w \in Writers |-> Returned("none", <<>>, FALSE)]

-----------------------------------------------------------------------------
(* The state machine: the files start absent, and each step is one call.   *)

Init ==
    /\ files = [p \in Paths |-> NoFile]
    /\ op = "start"
    /\ args = <<>>
    /\ ret = None
    /\ added = {}
    /\ calls = NoCalls

Call(name, data, result) ==
    /\ WithinBounds(result.files)
    /\ files' = result.files
    /\ op' = name
    /\ args' = data
    /\ ret' = result.ret
    /\ UNCHANGED calls

AddBeanBatch ==
    \E batch_data \in BatchInputs, now \in Timestamps :
        LET result == add_bean_batch(files, batch_data, InventoryPath, now)
        IN /\ Call("add_bean_batch", batch_data, result)
           /\ added' = IF result.ret THEN added \cup {batch_data.batch_id} ELSE added

UpdateBatchStatus ==
    \E update \in StatusUpdates, now \in Timestamps :
        /\ Call("update_batch_status", update,
                update_batch_status(files, update.batch_id, update.new_status,
                                    InventoryPath, now))
        /\ UNCHANGED added

RecordProcessingStage ==
    \E processing_data \in ProcessingInputs, now1 \in Timestamps, now2 \in Timestamps :
        /\ Call("record_processing_stage", processing_data,
                record_processing_stage(files, processing_data, ProcessingPath,
                                        now1, now2))
        /\ UNCHANGED added

Next ==
    \/ AddBeanBatch
    \/ UpdateBatchStatus
    \/ RecordProcessingStage

Spec == Init /\ [][Next]_vars

-----------------------------------------------------------------------------
(* The reading functions, applied to files as they may be found: absent,   *)
(* empty, or holding lines of which some are short or hold a weight that   *)
(* is not a number.                                                        *)

InventoryLines ==
    {<<"B001", COMMA, "2023-05-15", COMMA, "F042", COMMA, "Arabica", COMMA,
       "2", "5", "0", COMMA, "received">>,
     <<"B002", COMMA, "2023-05-16", COMMA, "F036", COMMA, "Robusta", COMMA,
       "3", "0", "0", COMMA, "washing">>,
     <<"B001", COMMA, "incomplete", SP, "line">>,
     <<"B002", COMMA, "2023-05-16", COMMA, "F036", COMMA, "Robusta", COMMA,
       "invalid_weight", COMMA, "washing">>}

ProcessingLines ==
    {<<"B001", COMMA, "washing", COMMA, "2023-05-16", COMMA, "2023-05-17", COMMA,
       "2", "4", "5">>,
     <<"B002", COMMA, "washing", COMMA, "2023-05-17", COMMA, "2023-05-18", COMMA,
       "2", "9", "4">>,
     <<"B001", COMMA, "washing", COMMA, "2023-05-16">>}

LogLines ==
    {<<"2023-05-15", SP, "10:00:00", COMMA, "add_batch", COMMA,
       "Added", SP, "batch", SP, "B001">>,
     <<"2023-05-15", SP, "10:00:05", COMMA, "test", COMMA,
       "minimal", COMMA, SP, "test">>,
     <<"not", SP, "a", SP, "log", SP, "line">>}

SeqsUpTo(S, n) == UNION {[1..k -> S] : k \in 0..n}

FileOf(lines) ==
    [exists |-> TRUE,
     data |-> Concat([i \in 1..Len(lines) |-> lines[i] \o <<NL>>])]

FilesOf(lines) == {NoFile} \cup {FileOf(ls) : ls \in SeqsUpTo(lines, MaxFileLines)}

(* Either the inventory and the processing records vary, or the log does.  *)
InitRead ==
    /\ \/ \E inventory \in FilesOf(InventoryLines),
             processing \in FilesOf(ProcessingLines) :
              files = [p \in Paths |->
                          IF p = InventoryPath THEN inventory
                          ELSE IF p = ProcessingPath THEN processing
                          ELSE NoFile]
       \/ \E log \in FilesOf(LogLines) :
              files = [p \in Paths |-> IF p = LogPath THEN log ELSE NoFile]
    /\ op = "start"
    /\ args = <<>>
    /\ ret = None
    /\ added = {}
    /\ calls = NoCalls

(* As Query, but with every file opened in a mode that creates it.         *)
Query_Creating(name, data, result) ==
    /\ op' = name
    /\ args' = data
    /\ ret' = result
    /\ files' = [p \in Paths |-> [exists |-> TRUE, data |-> files[p].data]]
    /\ UNCHANGED <<added, calls>>

Query(name, data, result) ==
    /\ op' = name
    /\ args' = data
    /\ ret' = result
    /\ UNCHANGED <<files, added, calls>>

ReadInventory ==
    Query("read_inventory", <<>>, read_inventory(files, InventoryPath))

ReadProcessingRecords ==
    Query("read_processing_records", <<>>,
          read_processing_records(files, ProcessingPath))

FindBatchById ==
    \E batch_id \in BatchIds :
        Query("find_batch_by_id", [batch_id |-> batch_id],
              find_batch_by_id(files, batch_id, InventoryPath))

CalculateInventorySummary ==
    Query("calculate_inventory_summary", <<>>,
          calculate_inventory_summary(files, InventoryPath))

CalculateProcessingYields ==
    Query("calculate_processing_yields", <<>>,
          calculate_processing_yields(files, InventoryPath, ProcessingPath))

ReadRecentLogs ==
    \E count \in 0..MaxCount :
        Query("read_recent_logs", [count |-> count],
              read_recent_logs(files, count, LogPath))

NextRead ==
    \/ ReadInventory
    \/ ReadProcessingRecords
    \/ FindBatchById
    \/ CalculateInventorySummary
    \/ CalculateProcessingYields
    \/ ReadRecentLogs

SpecRead == InitRead /\ [][NextRead]_vars

-----------------------------------------------------------------------------
(* The analysis functions, applied to inventories and processing records   *)
(* made of the lines of the sample data, of a second drying stage and of a *)
(* batch of weight 0.                                                      *)

SampleInventoryLines ==
    {<<"B001", COMMA, "2023-05-15", COMMA, "F042", COMMA, "Arabica", COMMA,
       "2", "5", "0", COMMA, "received">>,
     <<"B002", COMMA, "2023-05-16", COMMA, "F036", COMMA, "Robusta", COMMA,
       "3", "0", "0", COMMA, "washing">>,
     <<"B003", COMMA, "2023-05-17", COMMA, "F042", COMMA, "Arabica", COMMA,
       "1", "7", "5", COMMA, "drying">>,
     <<"B003", COMMA, "2023-05-17", COMMA, "F042", COMMA, "Arabica", COMMA,
       "0", COMMA, "drying">>}

SampleProcessingLines ==
    {<<"B001", COMMA, "washing", COMMA, "2023-05-16", COMMA, "2023-05-17", COMMA,
       "2", "4", "5">>,
     <<"B002", COMMA, "washing", COMMA, "2023-05-17", COMMA, "2023-05-18", COMMA,
       "2", "9", "4">>,
     <<"B003", COMMA, "drying", COMMA, "2023-05-18", COMMA, "2023-05-20", COMMA,
       "1", "6", "0">>,
     <<"B001", COMMA, "drying", COMMA, "2023-05-18", COMMA, "2023-05-20", COMMA,
       "2", "0", "0">>}

InitAnalysis ==
    /\ \E inventory \in FilesOf(SampleInventoryLines),
          processing \in FilesOf(SampleProcessingLines) :
           files = [p \in Paths |->
                       IF p = InventoryPath THEN inventory
                       ELSE IF p = ProcessingPath THEN processing
                       ELSE NoFile]
    /\ op = "start"
    /\ args = <<>>
    /\ ret = None
    /\ added = {}
    /\ calls = NoCalls

NextAnalysis ==
    \/ CalculateInventorySummary
    \/ CalculateProcessingYields

SpecAnalysis == InitAnalysis /\ [][NextAnalysis]_vars

-----------------------------------------------------------------------------
(* Files as an editor or another program may leave them, with empty lines, *)
(* short lines, lines of seven fields and weights that are no numbers:     *)
(* they are read, and the status of a batch is set, which writes the       *)
(* inventory back.                                                         *)

MixedInventoryLines ==
    {<<"B001", COMMA, "2023-05-15", COMMA, "F042", COMMA, "Arabica", COMMA,
       "2", "5", "0", COMMA, "received">>,
     <<"B002", COMMA, "2023-05-16", COMMA, "F036", COMMA, "Robusta", COMMA,
       "3", "0", "0", COMMA, "washing", COMMA, "extra">>,
     <<"B001", COMMA, "incomplete", SP, "line">>,
     <<>>,
     <<"B002", COMMA, "2023-05-16", COMMA, "F036", COMMA, "Robusta", COMMA,
       "invalid_weight", COMMA, "washing">>}

MixedProcessingLines ==
    {<<"B001", COMMA, "washing", COMMA, "2023-05-16", COMMA, "2023-05-17", COMMA,
       "2", "4", "5">>,
     <<"B002", COMMA, "washing", COMMA, "2023-05-17", COMMA, "2023-05-18", COMMA,
       "2", "9", "4">>,
     <<"B001", COMMA, "washing", COMMA, "2023-05-16">>,
     <<>>,
     <<"B002", COMMA, "washing", COMMA, "2023-05-17", COMMA, "2023-05-18", COMMA,
       "invalid_weight">>}

(* Either the inventory is such a file, or the processing records are.     *)
InitLines ==
    /\ \/ \E inventory \in FilesOf(MixedInventoryLines) :
              files = [p \in Paths |-> IF p = InventoryPath THEN inventory ELSE NoFile]
       \/ \E processing \in FilesOf(MixedProcessingLines) :
              files = [p \in Paths |-> IF p = ProcessingPath THEN processing ELSE NoFile]
    /\ op = "start"
    /\ args = <<>>
    /\ ret = None
    /\ added = {}
    /\ calls = NoCalls

NextLines ==
    \/ ReadInventory
    \/ ReadProcessingRecords
    \/ UpdateBatchStatus

SpecLines == InitLines /\ [][NextLines]_vars

-----------------------------------------------------------------------------
(* The log written by calls of log_operation and read back.                *)

LogTags == {PyStr(<<"test">>), PyStr(<<"add">>)}

(* Details without a comma, with a comma, and ending in a space.           *)
LogDetails ==
    {PyStr(<<"Test", SP, "operation", SP, "details">>),
     PyStr(<<"minimal", COMMA, SP, "test">>),
     PyStr(<<"done", SP>>)}

LogOperation ==
    \E operation \in LogTags, details \in LogDetails, now \in Timestamps :
        /\ Call("log_operation", [operation |-> operation, details |-> details],
                log_operation(files, operation, details, LogPath, now))
        /\ UNCHANGED added

NextLog ==
    \/ LogOperation
    \/ ReadRecentLogs

SpecLog == Init /\ [][NextLog]_vars

-----------------------------------------------------------------------------
(* The workflow of one batch: it is added, washed and dried, in any order  *)
(* and any number of times, and the reading and analysis functions are     *)
(* called in between.                                                      *)

(* The most stages recorded.                                               *)
MaxStages == 2

WorkflowBatch ==
    [batch_id |-> PyStr(<<"B500">>), date |-> PyStr(<<"2023-06-10">>),
     farmer_id |-> PyStr(<<"F100">>), bean_type |-> PyStr(<<"Arabica">>),
     weight_kg |-> PyInt(300), status |-> PyStr(<<"received">>)]

WorkflowWashing ==
    [batch_id |-> PyStr(<<"B500">>), process_type |-> PyStr(<<"washing">>),
     start_date |-> PyStr(<<"2023-06-11">>), end_date |-> PyStr(<<"2023-06-12">>),
     weight_after |-> PyInt(295)]

WorkflowDrying ==
    [batch_id |-> PyStr(<<"B500">>), process_type |-> PyStr(<<"drying">>),
     start_date |-> PyStr(<<"2023-06-13">>), end_date |-> PyStr(<<"2023-06-15">>),
     weight_after |-> PyInt(240)]

WorkflowCall(name, data, result) ==
    /\ LineCount(result.files, ProcessingPath) <= MaxStages
    /\ files' = result.files
    /\ op' = name
    /\ args' = data
    /\ ret' = result.ret
    /\ UNCHANGED calls

WorkflowAdd ==
    \E now \in Timestamps :
        LET result == add_bean_batch(files, WorkflowBatch, InventoryPath, now)
        IN /\ WorkflowCall("add_bean_batch", WorkflowBatch, result)
           /\ added' = IF result.ret THEN added \cup {WorkflowBatch.batch_id}
                        ELSE added

WorkflowRecord ==
    \E processing_data \in {WorkflowWashing, WorkflowDrying},
       now1 \in Timestamps, now2 \in Timestamps :
        /\ WorkflowCall("record_processing_stage", processing_data,
                        record_processing_stage(files, processing_data,
                                                ProcessingPath, now1, now2))
        /\ UNCHANGED added

NextWorkflow ==
    \/ WorkflowAdd
    \/ WorkflowRecord
    \/ ReadInventory
    \/ ReadProcessingRecords
    \/ CalculateInventorySummary
    \/ CalculateProcessingYields
    \/ ReadRecentLogs

SpecWorkflow == Init /\ [][NextWorkflow]_vars

-----------------------------------------------------------------------------
(* The writing functions called with a file of the caller's in place of    *)
(* the default inventory or the default processing records.                *)

InventoryPaths == {InventoryPath, CustomInventoryPath}

ProcessingPaths == {ProcessingPath, CustomProcessingPath}

PathsCall(name, data, result) ==
    /\ WithinBounds(result.files)
    /\ LineCount(result.files, CustomInventoryPath) <= MaxBatchLines
    /\ LineCount(result.files, CustomProcessingPath) <= MaxRecordLines
    /\ files' = result.files
    /\ op' = name
    /\ args' = data
    /\ ret' = result.ret
    /\ UNCHANGED calls

PathsAdd ==
    \E file_path \in InventoryPaths, now \in Timestamps :
        /\ PathsCall("add_bean_batch",
                     [batch_data |-> SampleBatch, file_path |-> file_path],
                     add_bean_batch(files, SampleBatch, file_path, now))
        /\ UNCHANGED added

PathsUpdate ==
    \E file_path \in InventoryPaths, now \in Timestamps :
        /\ PathsCall("update_batch_status",
                     [batch_id |-> SampleBatch.batch_id,
                      new_status |-> PyStr(<<"drying">>),
                      file_path |-> file_path],
                     update_batch_status(files, SampleBatch.batch_id,
                                         PyStr(<<"drying">>), file_path, now))
        /\ UNCHANGED added

PathsRecord ==
    \E file_path \in ProcessingPaths, now1 \in Timestamps, now2 \in Timestamps :
        /\ PathsCall("record_processing_stage",
                     [processing_data |-> SampleProcessing, file_path |-> file_path],
                     record_processing_stage(files, SampleProcessing, file_path,
                                             now1, now2))
        /\ UNCHANGED added

NextPaths ==
    \/ PathsAdd
    \/ PathsUpdate
    \/ PathsRecord

SpecPaths == Init /\ [][NextPaths]_vars

-----------------------------------------------------------------------------
(* Two writers with the same files.  No function takes a lock, so a call   *)
(* of one writer runs between any two file operations of the other: a step *)
(* is one open, read or write and close of a file, with the work in memory *)
(* that follows it.  add_bean_batch looks the batch up, appends its line   *)
(* and logs; update_batch_status reads the inventory, writes it back and   *)
(* logs.                                                                   *)

RaceBatches == {SampleBatch, [SampleBatch EXCEPT !.batch_id = PyStr(<<"B002">>)]}

RaceUpdates ==
    {[batch_id |-> SampleBatch.batch_id, new_status |-> PyStr(<<"washing">>)]}

(* A writer inside a call, about to take the step pc; inventory is the     *)
(* list update_batch_status has read.                                      *)
Running(pc, name, data, inventory) ==
    [pc |-> pc, name |-> name, data |-> data, inventory |-> inventory, ret |-> FALSE]

(* As AppendBatch, but looking the batch up once more and leaving the file *)
(* alone when it is there.                                                 *)
AppendBatch_Rechecked(fsys, batch_data, file_path) ==
    IF BatchExists(fsys, batch_data.batch_id, file_path) THEN fsys
    ELSE AppendText(fsys, file_path, CsvLine(batch_data, BatchFields))

(* with open(file_path, "a") as file: file.write(line)                     *)
AppendBatch(fsys, batch_data, file_path) ==
    AppendText(fsys, file_path, CsvLine(batch_data, BatchFields))

(* As RewriteInventory, but writing back the batches the file holds now    *)
(* in place of the list read before.                                       *)
RewriteInventory_Reread(fsys, inventory, batch_id, new_status, file_path) ==
    WriteText(fsys, file_path,
              BatchLines(SetStatus(read_inventory(fsys, file_path), batch_id,
                                   new_status)))

(* The status is set in the list read before, and the list is written     *)
(* over the file.                                                          *)
RewriteInventory(fsys, inventory, batch_id, new_status, file_path) ==
    WriteText(fsys, file_path, BatchLines(SetStatus(inventory, batch_id, new_status)))

(* The step of writer w that leaves the files as fsys and the writer as    *)
(* call; a step that ends a call is its return.                            *)
RaceStep(w, fsys, call) ==
    /\ WithinBounds(fsys)
    /\ files' = fsys
    /\ calls' = [calls EXCEPT ![w] = call]
    /\ IF call.pc = "idle"
       THEN /\ op' = call.name
            /\ args' = call.data
            /\ ret' = call.ret
            /\ added' = IF call.name = "add_bean_batch" /\ call.ret
                         THEN added \cup {call.data.batch_id} ELSE added
       ELSE UNCHANGED <<op, args, ret, added>>

(* add_bean_batch up to its append: the fields and the duplicate check.    *)
AddCheck(w) ==
    /\ calls[w].pc = "idle"
    /\ \E batch_data \in RaceBatches :
           IF \/ MissingField(batch_data, BatchFields)
              \/ BatchExists(files, batch_data.batch_id, InventoryPath)
           THEN RaceStep(w, files, Returned("add_bean_batch", batch_data, FALSE))
           ELSE RaceStep(w, files, Running("append", "add_bean_batch", batch_data, <<>>))

AddAppend(w) ==
    /\ calls[w].pc = "append"
    /\ RaceStep(w, AppendBatch(files, calls[w].data, InventoryPath),
                Running("log", "add_bean_batch", calls[w].data, <<>>))

(* update_batch_status up to its rewrite: the inventory is read and the    *)
(* batch looked for.                                                       *)
UpdateRead(w) ==
    /\ calls[w].pc = "idle"
    /\ \E update \in RaceUpdates :
           LET inventory == read_inventory(files, InventoryPath)
           IN IF find_in(inventory, update.batch_id) = None
              THEN RaceStep(w, files, Returned("update_batch_status", update, FALSE))
              ELSE RaceStep(w, files,
                            Running("rewrite", "update_batch_status", update, inventory))

UpdateRewrite(w) ==
    /\ calls[w].pc = "rewrite"
    /\ RaceStep(w, RewriteInventory(files, calls[w].inventory, calls[w].data.batch_id,
                                    calls[w].data.new_status, InventoryPath),
                Running("log", "update_batch_status", calls[w].data, <<>>))

(* The call of log_operation that ends both functions, and the return.     *)
LogAndReturn(w) ==
    /\ calls[w].pc = "log"
    /\ \E now \in Timestamps :
           LET data == calls[w].data
               operation == IF calls[w].name = "add_bean_batch"
                            THEN PyStr(<<"add_batch">>)
                            ELSE PyStr(<<"update_status">>)
               details == IF calls[w].name = "add_bean_batch"
                          THEN PyStr(<<"Added", SP, "batch", SP>>
                                       \o Format(data.batch_id))
                          ELSE PyStr(<<"Updated", SP, "batch", SP>>
                                       \o Format(data.batch_id)
                                       \o <<SP, "status", SP, "to", SP>>
                                       \o Format(data.new_status))
           IN RaceStep(w, log_operation(files, operation, details, LogPath, now).files,
                       Returned(calls[w].name, data, TRUE))

NextRace ==
    \E w \in Writers :
        \/ AddCheck(w)
        \/ AddAppend(w)
        \/ UpdateRead(w)
        \/ UpdateRewrite(w)
        \/ LogAndReturn(w)

SpecRace == Init /\ [][NextRace]_vars

-----------------------------------------------------------------------------
(* Properties of the writing functions.  A step of the specification is    *)
(* one call: the unprimed state is the state before the call, op', args'   *)
(* and ret' are the call and its result, files' the files it leaves.       *)

HasAll(data, fields) == Range(fields) \subseteq DOMAIN data

(* The batch find_batch_by_id returns has the six values of the dict.      *)
SameBatch(batch, data) ==
    /\ batch # None
    /\ \A f \in Range(BatchFields) : PyEq(batch[f], data[f])

(* C1: for every batch data holding all six required fields whose batch_id *)
(* is not yet in the inventory, add_batch returns success and a following  *)
(* find_by_id(batch_id) returns a record whose six fields equal the values *)
(* passed in (weight_kg numerically).                                      *)
C1_AddThenFind ==
    [][(/\ op' = "add_bean_batch"
        /\ HasAll(args', BatchFields)
        /\ find_batch_by_id(files, args'.batch_id, InventoryPath) = None)
       => (/\ ret' = TRUE
           /\ SameBatch(find_batch_by_id(files', args'.batch_id, InventoryPath),
                        args'))]_vars

(* C2: add_batch with a batch_id already present in the inventory returns  *)
(* failure and leaves every file, the inventory among them, as it was.     *)
C2_DuplicateRejected ==
    [][(/\ op' = "add_bean_batch"
        /\ "batch_id" \in DOMAIN args'
        /\ find_batch_by_id(files, args'.batch_id, InventoryPath) # None)
       => (ret' = FALSE /\ files' = files)]_vars

(* A complete batch was offered under an id the inventory holds, and was   *)
(* refused.                                                                *)
C2_Witness ==
    /\ op = "add_bean_batch"
    /\ HasAll(args, BatchFields)
    /\ find_batch_by_id(files, args.batch_id, InventoryPath) # None
    /\ ret = FALSE

(* C3: in every state reached from the empty inventory by add_batch,       *)
(* update_status and record_stage calls, no two records returned by        *)
(* read_inventory have the same batch_id.                                  *)
C3_UniqueBatchIds ==
    LET inventory == read_inventory(files, InventoryPath)
    IN \A i, j \in 1..Len(inventory) :
           i # j => ~PyEq(inventory[i].batch_id, inventory[j].batch_id)

(* C4: add_batch with one of its six fields absent, and record_stage with  *)
(* one of its five fields absent, return failure and leave the inventory,  *)
(* the processing records and the log as they were.                        *)
C4_MissingFieldRejected ==
    [][(\/ /\ op' = "add_bean_batch"
           /\ \E f \in {"batch_id", "date", "farmer_id", "bean_type",
                         "weight_kg", "status"} : f \notin DOMAIN args'
        \/ /\ op' = "record_processing_stage"
           /\ \E f \in {"batch_id", "process_type", "start_date", "end_date",
                         "weight_after"} : f \notin DOMAIN args')
       => (ret' = FALSE /\ files' = files)]_vars

(* A stage without its weight_after was refused while the inventory held a *)
(* batch.                                                                  *)
C4_Witness ==
    /\ op = "record_processing_stage"
    /\ DOMAIN args = {"batch_id", "process_type", "start_date", "end_date"}
    /\ ret = FALSE
    /\ Len(read_inventory(files, InventoryPath)) > 0

(* C5: for any batch id add_batch has returned success for, and any status *)
(* s, update_status(id, s) returns success and a following find_by_id(id)  *)
(* returns a record whose status is s.                                     *)
C5_UpdateThenFind ==
    [][(/\ op' = "update_batch_status"
        /\ args'.batch_id \in added)
       => (/\ ret' = TRUE
           /\ LET batch == find_batch_by_id(files', args'.batch_id, InventoryPath)
              IN batch # None /\ PyEq(batch.status, args'.new_status))]_vars

(* C6: update_status with a batch id that is not in the inventory returns  *)
(* failure, writes nothing to the inventory and appends nothing to the     *)
(* log: every file is as it was.                                           *)
C6_UnknownBatchUntouched ==
    [][(/\ op' = "update_batch_status"
        /\ find_batch_by_id(files, args'.batch_id, InventoryPath) = None)
       => (ret' = FALSE /\ files' = files)]_vars

(* The update was refused for an id the inventory does not hold, while it  *)
(* holds another batch.                                                    *)
C6_Witness ==
    /\ op = "update_batch_status"
    /\ ret = FALSE
    /\ find_batch_by_id(files, args.batch_id, InventoryPath) = None
    /\ Len(read_inventory(files, InventoryPath)) > 0

(* The line of the stage is appended to the processing records.            *)
StageAppended(before, after, data) ==
    after[ProcessingPath] =
        [exists |-> TRUE,
         data |-> before[ProcessingPath].data \o CsvLine(data, ProcessingFields)]

(* C7: record_stage with all five fields for a batch in the inventory      *)
(* returns success, appends exactly the record given to the end of the     *)
(* processing records, and a following find_by_id shows the batch with the *)
(* process_type as its status.                                             *)
C7_StageSetsStatus ==
    [][(/\ op' = "record_processing_stage"
        /\ HasAll(args', ProcessingFields)
        /\ find_batch_by_id(files, args'.batch_id, InventoryPath) # None)
       => (/\ ret' = TRUE
           /\ StageAppended(files, files', args')
           /\ LET batch == find_batch_by_id(files', args'.batch_id, InventoryPath)
              IN batch # None /\ PyEq(batch.status, args'.process_type))]_vars

(* C8: record_stage for a batch_id that is not in the inventory, so that   *)
(* its status update fails, still returns success; the line of the record  *)
(* is appended to the processing records and stays there, and the          *)
(* inventory file is as it was.                                            *)
C8_NoRollback ==
    [][(/\ op' = "record_processing_stage"
        /\ HasAll(args', ProcessingFields)
        /\ find_batch_by_id(files, args'.batch_id, InventoryPath) = None)
       => (/\ ret' = TRUE
           /\ StageAppended(files, files', args')
           /\ files'[InventoryPath] = files[InventoryPath])]_vars

(* A stage was recorded for B002 while the inventory held only B001: the   *)
(* record is read back and B001 is as it was.                              *)
C8_Witness ==
    /\ op = "record_processing_stage"
    /\ ret = TRUE
    /\ args.batch_id = PyStr(<<"B002">>)
    /\ find_batch_by_id(files, args.batch_id, InventoryPath) = None
    /\ find_batch_by_id(files, PyStr(<<"B001">>), InventoryPath) # None
    /\ \E i \in 1..Len(read_processing_records(files, ProcessingPath)) :
           read_processing_records(files, ProcessingPath)[i].batch_id = args.batch_id

(* The first batch of the inventory with the id, 0 if there is none.       *)
FirstWith(inventory, batch_id) ==
    IF \E i \in 1..Len(inventory) : PyEq(inventory[i].batch_id, batch_id)
    THEN CHOOSE i \in 1..Len(inventory) :
             /\ PyEq(inventory[i].batch_id, batch_id)
             /\ \A j \in 1..(i - 1) : ~PyEq(inventory[j].batch_id, batch_id)
    ELSE 0

(* C14: a successful update_status(id, s) keeps the number and the order   *)
(* of the batches read_inventory returns, leaves every batch but the first *)
(* with the id as it was in all six fields, and leaves that batch as it    *)
(* was in its batch_id, date, farmer_id, bean_type and weight_kg.          *)
C14_UpdateChangesOnlyStatus ==
    [][(op' = "update_batch_status" /\ ret' = TRUE)
       => LET before == read_inventory(files, InventoryPath)
              after == read_inventory(files', InventoryPath)
              first == FirstWith(before, args'.batch_id)
          IN /\ first # 0
             /\ Len(after) = Len(before)
             /\ \A i \in 1..Len(before) :
                    IF i = first
                    THEN \A f \in {"batch_id", "date", "farmer_id", "bean_type",
                                    "weight_kg"} : after[i][f] = before[i][f]
                    ELSE after[i] = before[i]]_vars

(* The status of B001 was set while the inventory held two batches read as *)
(* B001: the first has the new status, the second the status it had.       *)
C14_Witness ==
    LET inventory == read_inventory(files, InventoryPath)
    IN /\ op = "update_batch_status"
       /\ ret = TRUE
       /\ Len(inventory) = 2
       /\ PyEq(inventory[1].batch_id, inventory[2].batch_id)
       /\ PyEq(inventory[1].status, args.new_status)
       /\ ~PyEq(inventory[2].status, args.new_status)

(* C15: in every state reached by add_batch, update_status and             *)
(* record_stage calls, find_by_id returns a batch for every batch_id       *)
(* add_batch has returned success for.                                     *)
C15_AddedStaysFound ==
    \A batch_id \in added :
        find_batch_by_id(files, batch_id, InventoryPath) # None

(* The weights of the batches read_inventory returns, in file order.       *)
Weights(fsys) ==
    LET inventory == read_inventory(fsys, InventoryPath)
    IN [i \in 1..Len(inventory) |-> inventory[i].weight_kg.val]

(* C16: update_status and record_stage leave the weight_kg of every batch  *)
(* as it was, so that no weight_after reaches the inventory; add_batch     *)
(* leaves the weights of the batches there as they were and, when it       *)
(* succeeds, adds one batch with the weight it was given.                  *)
C16_WeightKept ==
    [][LET before == Weights(files)
           after == Weights(files')
       IN IF op' = "add_bean_batch" /\ ret' = TRUE
          THEN after = Append(before, args'.weight_kg.val)
          ELSE files'[InventoryPath] = files[InventoryPath] \/ after = before]_vars

(* A stage with weight_after 245 was recorded for the one batch of the     *)
(* inventory, whose status is now the stage and whose weight is the 250 it *)
(* was added with.                                                         *)
C16_Witness ==
    /\ op = "record_processing_stage"
    /\ ret = TRUE
    /\ args.weight_after.val = 245
    /\ Weights(files) = <<250>>
    /\ PyEq(find_batch_by_id(files, args.batch_id, InventoryPath).status,
            args.process_type)

(* The operations of the entries of a piece of log, in order: of each line *)
(* the text between its first comma and its second, commas being the       *)
(* number of commas met in the line the scan is in.                        *)
RECURSIVE OperationsIn(_, _, _)
OperationsIn(text, i, commas) ==
    IF i > Len(text) THEN <<>>
    ELSE IF text[i] = NL THEN OperationsIn(text, i + 1, 0)
    ELSE IF text[i] = COMMA THEN OperationsIn(text, i + 1, commas + 1)
    ELSE IF commas = 1 THEN <<text[i]>> \o OperationsIn(text, i + 1, commas)
    ELSE OperationsIn(text, i + 1, commas)

(* The step appends to the log, and nothing else, entries, one a line,     *)
(* with these operations in this order.                                    *)
LogAppended(operations) ==
    LET before == files[LogPath].data
        after == files'[LogPath].data
        text == SubSeq(after, Len(before) + 1, Len(after))
    IN /\ Len(after) >= Len(before)
       /\ SubSeq(after, 1, Len(before)) = before
       /\ Cardinality({i \in 1..Len(text) : text[i] = NL}) = Len(operations)
       /\ OperationsIn(text, 1, 0) = operations

(* C20: a successful add_batch appends the one entry add_batch to the log, *)
(* a successful update_status the one entry update_status, a successful    *)
(* record_stage the one entry record_processing, after an entry            *)
(* update_status when the batch is in the inventory and alone when it is   *)
(* not; a call that returns failure leaves the log as it was.              *)
C20_MutationsLogged ==
    [][IF ret' = FALSE THEN files'[LogPath] = files[LogPath]
       ELSE IF op' = "add_bean_batch" THEN LogAppended(<<"add_batch">>)
       ELSE IF op' = "update_batch_status" THEN LogAppended(<<"update_status">>)
       ELSE IF find_batch_by_id(files, args'.batch_id, InventoryPath) # None
       THEN LogAppended(<<"update_status", "record_processing">>)
       ELSE LogAppended(<<"record_processing">>)]_vars

(* A stage was recorded for a batch of the inventory: the log ends with    *)
(* the entries update_status and record_processing.                        *)
C20_Witness ==
    LET lines == FileLines(files[LogPath].data)
    IN /\ op = "record_processing_stage"
       /\ ret = TRUE
       /\ Len(lines) >= 3
       /\ SplitMax(lines[Len(lines) - 1], COMMA, 2)[2] = <<"update_status">>
       /\ SplitMax(lines[Len(lines)], COMMA, 2)[2] = <<"record_processing">>

(* The text is the beginning of the text of the file.                      *)
IsPrefix(before, after) ==
    /\ Len(before) <= Len(after)
    /\ SubSeq(after, 1, Len(before)) = before

(* C21: every call of add_batch, update_status and record_stage, with the  *)
(* calls of log_operation they make, leaves the lines the processing       *)
(* records and the log held as the first lines of these files, unchanged,  *)
(* and removes neither file.                                               *)
C21_AppendOnly ==
    [][\A path \in {ProcessingPath, LogPath} :
          /\ IsPrefix(files[path].data, files'[path].data)
          /\ files[path].exists => files'[path].exists]_vars

(* A second stage was recorded: both stages are in the processing records, *)
(* the first before the second, and the log holds the entries of both.     *)
C21_Witness ==
    /\ op = "record_processing_stage"
    /\ ret = TRUE
    /\ LineCount(files, ProcessingPath) = 2
    /\ LineCount(files, LogPath) >= 2

-----------------------------------------------------------------------------
(* Properties of the reading functions, in SpecRead: op, args and ret are  *)
(* the call made last and its result, files the files it read.             *)

(* The file is absent, or is there and holds nothing.                      *)
Blank(path) == files[path].data = <<>>

(* C9: reading an absent or an empty file yields the empty result:         *)
(* read_inventory, read_processing_records and read_recent_logs return an  *)
(* empty list, find_batch_by_id and calculate_inventory_summary return     *)
(* None, calculate_processing_yields returns an empty dict.                *)
C9_BlankFileReadsEmpty ==
    /\ (op = "read_inventory" /\ Blank(InventoryPath)) => ret = <<>>
    /\ (op = "read_processing_records" /\ Blank(ProcessingPath)) => ret = <<>>
    /\ (op = "read_recent_logs" /\ Blank(LogPath)) => ret = <<>>
    /\ (op = "find_batch_by_id" /\ Blank(InventoryPath)) => ret = None
    /\ (op = "calculate_inventory_summary" /\ Blank(InventoryPath)) => ret = None
    /\ (op = "calculate_processing_yields"
          /\ (Blank(InventoryPath) \/ Blank(ProcessingPath))) => ret = EmptyDict

(* The summary was asked of an inventory file that is there and empty.     *)
C9_Witness ==
    /\ op = "calculate_inventory_summary"
    /\ files[InventoryPath].exists
    /\ Blank(InventoryPath)
    /\ ret = None

(* C10: calculate_inventory_summary returns None exactly when              *)
(* read_inventory returns no batch; otherwise total_batches is the number  *)
(* of batches and total_weight the sum of their weight_kg.                 *)
C10_SummaryTotals ==
    op = "calculate_inventory_summary" =>
        LET inventory == read_inventory(files, InventoryPath)
        IN /\ ret = None <=> Len(inventory) = 0
           /\ ret # None =>
                /\ ret.total_batches = Len(inventory)
                /\ ret.total_weight =
                       Sum([i \in 1..Len(inventory) |-> inventory[i].weight_kg.val])

(* The summary of two batches of different weights.                        *)
C10_Witness ==
    /\ op = "calculate_inventory_summary"
    /\ ret # None
    /\ ret.total_batches = 2
    /\ ret.total_weight = 550

(* The lines of the log file, oldest first.                                *)
LogFileLines == FileLines(files[LogPath].data)

(* The line holds a timestamp, an operation and details, as every line     *)
(* log_operation writes does.                                              *)
IsLogEntry(line) == Len(SplitMax(Strip(line), COMMA, 2)) >= 3

(* The entries of the log file, oldest first.                              *)
LogEntries ==
    LET whole == SelectSeq(LogFileLines, IsLogEntry)
    IN [i \in 1..Len(whole) |-> LogOfLine(whole[i])]

(* C12: for every count n, 0 among them, read_recent_logs(n) returns at    *)
(* most n entries, and they are the last entries of the log, the newest    *)
(* first.                                                                  *)
C12_AtMostCount ==
    op = "read_recent_logs" =>
        /\ Len(ret) <= args.count
        /\ \E k \in 0..Len(LogEntries) :
               \A i \in 1..Len(ret) :
                   /\ Len(ret) = Len(LogEntries) - k
                   /\ ret[i] = LogEntries[Len(LogEntries) + 1 - i]

(* C19: for a log of L lines that are all entries and a count n >= 1,      *)
(* read_recent_logs(n) returns exactly min(n, L) entries, the k-th of them *)
(* being the k-th entry from the end of the log.                           *)
C19_LastEntriesNewestFirst ==
    (/\ op = "read_recent_logs"
     /\ args.count >= 1
     /\ \A i \in 1..Len(LogFileLines) : IsLogEntry(LogFileLines[i]))
    => LET L == Len(LogFileLines)
       IN /\ Len(ret) = IF args.count < L THEN args.count ELSE L
          /\ \A k \in 1..Len(ret) :
                 /\ ret[k].timestamp.val = SplitMax(LogFileLines[L + 1 - k], COMMA, 2)[1]
                 /\ ret[k].operation.val = SplitMax(LogFileLines[L + 1 - k], COMMA, 2)[2]
                 /\ ret[k].details.val = SplitMax(LogFileLines[L + 1 - k], COMMA, 2)[3]

(* One entry was asked of a log of two different entries, and the later    *)
(* one returned.                                                           *)
C19_Witness ==
    /\ op = "read_recent_logs"
    /\ args.count = 1
    /\ Len(LogFileLines) = 2
    /\ IsLogEntry(LogFileLines[1]) /\ IsLogEntry(LogFileLines[2])
    /\ LogFileLines[1] # LogFileLines[2]
    /\ Len(ret) = 1
    /\ ret[1] = LogOfLine(LogFileLines[2])

(* The calls that only read.                                               *)
ReadOnlyCalls ==
    {"read_inventory", "read_processing_records", "find_batch_by_id",
     "calculate_inventory_summary", "calculate_processing_yields",
     "read_recent_logs"}

(* C29: read_inventory, read_processing_records, find_batch_by_id,         *)
(* calculate_inventory_summary, calculate_processing_yields and            *)
(* read_recent_logs leave the inventory, the processing records and the    *)
(* log as they were: no text is written and no absent file is created.     *)
C29_ReadsLeaveFiles ==
    [][op' \in ReadOnlyCalls => files' = files]_vars

(* The yields were asked for with no inventory file, and there is none     *)
(* after the call.                                                         *)
C29_Witness ==
    /\ op = "calculate_processing_yields"
    /\ ~files[InventoryPath].exists
    /\ files[ProcessingPath].exists
    /\ ~files[LogPath].exists

-----------------------------------------------------------------------------
(* Properties of the analysis functions, in SpecAnalysis.                  *)

(* The keys of a dict.                                                     *)
Keys(dict) == {dict[i].key : i \in 1..Len(dict)}

(* The process types of the processing records read from the file.         *)
TypesPresent ==
    LET records == read_processing_records(files, ProcessingPath)
    IN {records[i].process_type.val : i \in 1..Len(records)}

(* The records of a process type whose batch is found in the inventory.    *)
Resolving(type) ==
    LET records == read_processing_records(files, ProcessingPath)
    IN {i \in 1..Len(records) :
           /\ records[i].process_type.val = type
           /\ find_batch_by_id(files, records[i].batch_id, InventoryPath) # None}

(* Some record is of a batch found with a stored weight of 0.              *)
ZeroWeightResolved ==
    LET records == read_processing_records(files, ProcessingPath)
    IN \E i \in 1..Len(records) :
           LET batch == find_batch_by_id(files, records[i].batch_id, InventoryPath)
           IN batch # None /\ batch.weight_kg.val = 0

(* C11, as claimed: the keys of the dict calculate_processing_yields       *)
(* returns are exactly the process types present in the processing         *)
(* records, and the count of each is the number of its records whose batch *)
(* is found.                                                               *)
C11_KeysAreTypesPresent ==
    op = "calculate_processing_yields" =>
        /\ Keys(ret) = TypesPresent
        /\ \A i \in 1..Len(ret) :
               ret[i].value.count = Cardinality(Resolving(ret[i].key))

(* C11, amended: the keys are exactly the process types with at least one  *)
(* record whose batch is found, each once, and the count of each is the    *)
(* number of such records; when some record is of a batch found with       *)
(* weight 0 the dict is empty.                                             *)
C11_KeysAreTypesResolved ==
    op = "calculate_processing_yields" =>
        IF ZeroWeightResolved THEN ret = EmptyDict
        ELSE /\ Keys(ret) = {type \in TypesPresent : Resolving(type) # {}}
             /\ Len(ret) = Cardinality(Keys(ret))
             /\ \A i \in 1..Len(ret) :
                    ret[i].value.count = Cardinality(Resolving(ret[i].key))

(* The yields of a file with a type whose batch is found and a type whose  *)
(* batch is not.                                                           *)
C11_Witness ==
    /\ op = "calculate_processing_yields"
    /\ Keys(ret) # {}
    /\ TypesPresent \ Keys(ret) # {}

(* Of the records of a process type whose batch is found, in file order,   *)
(* the weight after the stage and the stored weight of the batch.          *)
ResolvedWeights(type) ==
    LET records == read_processing_records(files, ProcessingPath)
        resolved == SelectSeq(records,
                        LAMBDA record :
                            /\ record.process_type.val = type
                            /\ find_batch_by_id(files, record.batch_id,
                                                InventoryPath) # None)
    IN [i \in 1..Len(resolved) |->
           [after |-> resolved[i].weight_after.val,
            original |-> find_batch_by_id(files, resolved[i].batch_id,
                                          InventoryPath).weight_kg.val]]

(* The least common multiple of the stored weights.                        *)
RECURSIVE CommonWeight(_)
CommonWeight(weights) ==
    IF weights = <<>> THEN 1
    ELSE LET rest == CommonWeight(Tail(weights))
         IN (rest \div GCD(rest, Head(weights).original)) * Head(weights).original

(* The sum of after / original over the records, times common.             *)
RECURSIVE YieldSum(_, _)
YieldSum(weights, common) ==
    IF weights = <<>> THEN 0
    ELSE Head(weights).after * (common \div Head(weights).original)
           + YieldSum(Tail(weights), common)

(* hundredths is n / d rounded to a whole number (d > 0).                  *)
IsRounded(hundredths, n, d) ==
    LET diff == n - hundredths * d
    IN 2 * (IF diff < 0 THEN 0 - diff ELSE diff) <= d

(* C17: for every process type of the dict calculate_processing_yields     *)
(* returns, count is the number of the records of the type whose batch is  *)
(* found, and average_yield_percentage is the mean over these records of   *)
(* weight_after / weight_kg * 100, with the weight_kg the batch has in the *)
(* inventory, rounded to hundredths.                                       *)
C17_AverageIsMean ==
    op = "calculate_processing_yields" =>
        \A i \in 1..Len(ret) :
            LET weights == ResolvedWeights(ret[i].key)
                common == CommonWeight(weights)
            IN /\ ret[i].value.count = Len(weights)
               /\ Len(weights) > 0
               /\ IsRounded(ret[i].value.average_yield_percentage,
                            10000 * YieldSum(weights, common),
                            common * Len(weights))

(* The yields of two drying stages, 160 of 175 and 200 of 250: their mean  *)
(* is 85.71.                                                               *)
C17_Witness ==
    /\ op = "calculate_processing_yields"
    /\ \E i \in 1..Len(ret) :
           /\ ret[i].key = <<"drying">>
           /\ ret[i].value.count = 2
           /\ ret[i].value.average_yield_percentage = 8571

(* The weights of the batches whose field has the value, summed.           *)
WeightOf(inventory, field, value) ==
    Sum([i \in 1..Len(inventory) |->
            IF inventory[i][field].val = value THEN inventory[i].weight_kg.val
            ELSE 0])

(* The dict maps each value the field has in the inventory, and nothing    *)
(* else, to the weight of the batches with the value.                      *)
GroupsWeights(dict, inventory, field) ==
    /\ Keys(dict) = {inventory[i][field].val : i \in 1..Len(inventory)}
    /\ Len(dict) = Cardinality(Keys(dict))
    /\ \A i \in 1..Len(dict) :
           dict[i].value = WeightOf(inventory, field, dict[i].key)

(* C18: for a non-empty inventory, the keys of bean_types are the bean     *)
(* types of the batches and the keys of stages their statuses, each key    *)
(* maps to the sum of the weight_kg of the batches with that value, and    *)
(* the values of bean_types and the values of stages both sum to           *)
(* total_weight.                                                           *)
C18_SummaryGroups ==
    (op = "calculate_inventory_summary"
       /\ read_inventory(files, InventoryPath) # <<>>)
    => LET inventory == read_inventory(files, InventoryPath)
       IN /\ ret # None
          /\ GroupsWeights(ret.bean_types, inventory, "bean_type")
          /\ GroupsWeights(ret.stages, inventory, "status")
          /\ Sum([i \in 1..Len(ret.bean_types) |-> ret.bean_types[i].value])
               = ret.total_weight
          /\ Sum([i \in 1..Len(ret.stages) |-> ret.stages[i].value])
               = ret.total_weight

(* The summary of two batches of Arabica, one received and one drying.     *)
C18_Witness ==
    /\ op = "calculate_inventory_summary"
    /\ ret # None
    /\ ret.total_batches = 2
    /\ ret.bean_types = <<[key |-> <<"Arabica">>, value |-> 425]>>
    /\ Len(ret.stages) = 2

(* C28: calculate_processing_yields always returns a dict, and when some   *)
(* record is of a batch found with a stored weight of 0 the dict is empty: *)
(* no process type has a group, the types whose batches have a weight      *)
(* included.                                                               *)
C28_ZeroWeightEmptiesYields ==
    op = "calculate_processing_yields" =>
        /\ \A i \in 1..Len(ret) :
               DOMAIN ret[i].value = {"average_yield_percentage", "count"}
        /\ ZeroWeightResolved => ret = EmptyDict

(* The yields of a washing of a batch of 250 kg and a drying of a batch of *)
(* 0 kg: the dict is empty.                                                *)
C28_Witness ==
    /\ op = "calculate_processing_yields"
    /\ ZeroWeightResolved
    /\ ret = EmptyDict
    /\ \E i \in 1..Len(ResolvedWeights(<<"washing">>)) :
           ResolvedWeights(<<"washing">>)[i].original > 0

-----------------------------------------------------------------------------
(* The workflow, in SpecWorkflow.                                          *)

(* The batch was added to the empty inventory, then washed, then dried,    *)
(* and nothing else was done: the log holds the five entries of these      *)
(* three calls and the processing records the two stages.                  *)
WorkflowDone ==
    /\ [i \in 1..Len(LogEntries) |-> LogEntries[i].operation.val]
         = << <<"add_batch">>, <<"update_status">>, <<"record_processing">>,
              <<"update_status">>, <<"record_processing">> >>
    /\ LET records == read_processing_records(files, ProcessingPath)
       IN [i \in 1..Len(records) |-> records[i].process_type.val]
            = << <<"washing">>, <<"drying">> >>

(* C13, as claimed: after the workflow the summary has the status drying   *)
(* among its stages and the weight 240 among the weights of its stages,    *)
(* and the average yield of washing is 98.33.                              *)
C13_WorkflowShowsStageWeight ==
    /\ (WorkflowDone /\ op = "calculate_inventory_summary") =>
           /\ ret # None
           /\ HasKey(ret.stages, <<"drying">>)
           /\ \E i \in 1..Len(ret.stages) : ret.stages[i].value = 240
    /\ (WorkflowDone /\ op = "calculate_processing_yields") =>
           /\ HasKey(ret, <<"washing">>)
           /\ Get(ret, <<"washing">>).average_yield_percentage = 9833

(* C13, amended: after the workflow the stages of the summary are the      *)
(* status drying alone, with the weight 300 the batch was added with, and  *)
(* the average yield of washing is 98.33.                                  *)
C13_WorkflowShowsCreationWeight ==
    /\ (WorkflowDone /\ op = "calculate_inventory_summary") =>
           /\ ret # None
           /\ ret.stages = <<[key |-> <<"drying">>, value |-> 300]>>
    /\ (WorkflowDone /\ op = "calculate_processing_yields") =>
           /\ HasKey(ret, <<"washing">>)
           /\ Get(ret, <<"washing">>).average_yield_percentage = 9833

(* The yields were asked for after the workflow.                           *)
C13_Witness ==
    /\ WorkflowDone
    /\ op = "calculate_processing_yields"
    /\ HasKey(ret, <<"washing">>)
    /\ HasKey(ret, <<"drying">>)

-----------------------------------------------------------------------------
(* Properties of the reading and the writing back of lines, in SpecLines.  *)

(* The fields of a line.                                                   *)
FieldsOf(line) == Split(Strip(line), COMMA)

(* The line has the n fields of a record or more, and its fifth, the       *)
(* weight, is a number.                                                    *)
WellFormed(line, n) ==
    /\ Len(FieldsOf(line)) >= n
    /\ ParseFloat(FieldsOf(line)[5]).ok

(* The line is empty or has fewer than n fields.                           *)
Short(line, n) == Len(FieldsOf(line)) < n

(* The records are those of the well-formed lines, in the order of the     *)
(* lines: the first four fields as text, the fifth as a number, and for a  *)
(* batch the sixth as its status.                                          *)
RecordsOfLines(records, lines, n, names) ==
    LET good == SelectSeq(lines, LAMBDA line : WellFormed(line, n))
    IN /\ Len(records) = Len(good)
       /\ \A k \in 1..Len(records) :
              /\ \A f \in 1..4 : records[k][names[f]].val = FieldsOf(good[k])[f]
              /\ records[k][names[5]].val = ParseFloat(FieldsOf(good[k])[5]).val
              /\ n = 6 => records[k][names[6]].val = FieldsOf(good[k])[6]

(* C22: when every line of the file is well-formed, short or empty,        *)
(* read_inventory and read_processing_records return the records of the    *)
(* well-formed lines, all of them and in file order, those before a short  *)
(* or an empty line and those after it.                                    *)
C22_ShortLinesSkipped ==
    /\ op = "read_inventory" =>
           LET lines == FileLines(files[InventoryPath].data)
           IN (\A i \in 1..Len(lines) : WellFormed(lines[i], 6) \/ Short(lines[i], 6))
              => RecordsOfLines(ret, lines, 6, BatchFields)
    /\ op = "read_processing_records" =>
           LET lines == FileLines(files[ProcessingPath].data)
           IN (\A i \in 1..Len(lines) : WellFormed(lines[i], 5) \/ Short(lines[i], 5))
              => RecordsOfLines(ret, lines, 5, ProcessingFields)

(* The inventory read is a short line followed by the line of a batch, and *)
(* the batch is returned.                                                  *)
C22_Witness ==
    LET lines == FileLines(files[InventoryPath].data)
    IN /\ op = "read_inventory"
       /\ Len(lines) = 2
       /\ Short(lines[1], 6) /\ lines[1] # <<>>
       /\ WellFormed(lines[2], 6)
       /\ Len(ret) = 1

(* C23: read_inventory and read_processing_records return the records of   *)
(* all the well-formed lines of the file, whatever its other lines are, a  *)
(* line whose weight is no number among them.                              *)
C23_BadWeightContained ==
    /\ op = "read_inventory" =>
           RecordsOfLines(ret, FileLines(files[InventoryPath].data), 6, BatchFields)
    /\ op = "read_processing_records" =>
           RecordsOfLines(ret, FileLines(files[ProcessingPath].data), 5,
                          ProcessingFields)

(* C30: after a successful update_status the inventory file holds one line *)
(* for each batch read_inventory returned before the call, in that order   *)
(* and no other line: the line is the batch_id, date, farmer_id, bean_type *)
(* and weight_kg of the batch and, as the rest of the line, its status,    *)
(* the new one for the first batch with the id.                            *)
C30_RewriteKeepsParsedOnly ==
    [][(op' = "update_batch_status" /\ ret' = TRUE)
       => \A parsed \in {read_inventory(files, InventoryPath)},
             lines \in {FileLines(files'[InventoryPath].data)} :
              /\ Len(lines) = Len(parsed)
              /\ \A i \in 1..Len(lines) :
                     \A parts \in {SplitMax(lines[i], COMMA, 5)} :
                         /\ Len(parts) = 6
                         /\ parts[1] = parsed[i].batch_id.val
                         /\ parts[2] = parsed[i].date.val
                         /\ parts[3] = parsed[i].farmer_id.val
                         /\ parts[4] = parsed[i].bean_type.val
                         /\ ParseFloat(parts[5]) = [ok |-> TRUE,
                                                    val |-> parsed[i].weight_kg.val]
                         /\ parts[6] = IF i = FirstWith(parsed, args'.batch_id)
                                       THEN args'.new_status.val
                                       ELSE parsed[i].status.val]_vars

(* The status of B002 was set in a file that held its line of seven fields *)
(* alone or with a short or an empty line: the file is now one line of six *)
(* fields.                                                                 *)
C30_Witness ==
    LET lines == FileLines(files[InventoryPath].data)
    IN /\ op = "update_batch_status"
       /\ ret = TRUE
       /\ args.batch_id = PyStr(<<"B002">>)
       /\ Len(lines) = 1
       /\ Len(FieldsOf(lines[1])) = 6

-----------------------------------------------------------------------------
(* The log written and read back, in SpecLog.                              *)

(* C24: log_operation(operation, details) followed by read_recent_logs(1)  *)
(* returns one entry, whose operation is the operation logged and whose    *)
(* details are the whole of the details logged, commas included.           *)
C24_LoggedThenRead ==
    [][(/\ op = "log_operation"
        /\ op' = "read_recent_logs"
        /\ args'.count = 1)
       => (/\ Len(ret') = 1
           /\ PyEq(ret'[1].operation, args.operation)
           /\ PyEq(ret'[1].details, args.details))]_vars

-----------------------------------------------------------------------------
(* The writing functions with files of the caller's, in SpecPaths: args'   *)
(* holds the data of the call and the file_path it was given.              *)

(* C27: record_stage(data, path) returns success, appends the line of the  *)
(* record to the file at path and sets the status in the default inventory *)
(* alone: the caller's inventory is as it was, also when it alone holds    *)
(* the batch.  A successful add_batch, update_status or record_stage       *)
(* appends to the default log, and changes no file but the default log,    *)
(* the file it was given and, for record_stage, the default inventory.     *)
C27_DefaultStoresOnly ==
    [][/\ op' = "record_processing_stage"
          => LET data == args'.processing_data
                 before == find_batch_by_id(files, data.batch_id, InventoryPath)
                 after == find_batch_by_id(files', data.batch_id, InventoryPath)
             IN /\ ret' = TRUE
                /\ files'[CustomInventoryPath] = files[CustomInventoryPath]
                /\ files'[args'.file_path].data
                      = files[args'.file_path].data \o CsvLine(data, ProcessingFields)
                /\ IF before = None
                   THEN files'[InventoryPath] = files[InventoryPath]
                   ELSE after # None /\ PyEq(after.status, data.process_type)
       /\ ret' = TRUE
          => /\ IsPrefix(files[LogPath].data, files'[LogPath].data)
             /\ Len(files'[LogPath].data) > Len(files[LogPath].data)
             /\ \A path \in Paths \ {LogPath, args'.file_path} :
                    \/ files'[path] = files[path]
                    \/ op' = "record_processing_stage" /\ path = InventoryPath]_vars

(* A stage was recorded in the caller's processing records for a batch     *)
(* that the caller's inventory holds and the default inventory does not:   *)
(* the batch still has the status it was added with.                       *)
C27_Witness ==
    LET batch == find_batch_by_id(files, SampleProcessing.batch_id, CustomInventoryPath)
    IN /\ op = "record_processing_stage"
       /\ ret = TRUE
       /\ args.file_path = CustomProcessingPath
       /\ find_batch_by_id(files, SampleProcessing.batch_id, InventoryPath) = None
       /\ batch # None
       /\ PyEq(batch.status, SampleBatch.status)
       /\ files[LogPath].exists
       /\ LineCount(files, CustomProcessingPath) = 1

-----------------------------------------------------------------------------
(* Two writers, in SpecRace: calls[w] is the call writer w is in, or the   *)
(* one it made last.                                                       *)

(* Writer w has appended the batch of an add_bean_batch call: the call is  *)
(* at its log entry, or has returned True.                                 *)
HasAppended(w) ==
    /\ calls[w].name = "add_bean_batch"
    /\ calls[w].pc = "log" \/ (calls[w].pc = "idle" /\ calls[w].ret)

(* The number of batches of the inventory with the id.                     *)
CountWith(inventory, batch_id) ==
    Cardinality({i \in 1..Len(inventory) : PyEq(inventory[i].batch_id, batch_id)})

(* C25: the rewrite of update_status leaves the inventory as the list it   *)
(* read before, with the new status: a batch another writer's add_batch    *)
(* has appended since the read is not found after the rewrite, and that    *)
(* add_batch returns success all the same.                                 *)
C25_StaleRewriteLosesBatch ==
    [][\A w \in Writers :
          /\ (calls[w].pc = "rewrite" /\ calls'[w].pc = "log")
             => LET snapshot == calls[w].inventory
                IN /\ read_inventory(files', InventoryPath)
                        = SetStatus(snapshot, calls[w].data.batch_id,
                                    calls[w].data.new_status)
                   /\ \A v \in Writers \ {w} :
                          (/\ HasAppended(v)
                           /\ find_in(snapshot, calls[v].data.batch_id) = None)
                          => find_batch_by_id(files', calls[v].data.batch_id,
                                              InventoryPath) = None
          /\ (calls[w].name = "add_bean_batch" /\ calls[w].pc = "log"
                /\ calls'[w].pc = "idle")
             => calls'[w].ret = TRUE]_vars

(* One writer's update_status has returned success, the other's add_batch  *)
(* has returned success too, and the batch it added is not in the          *)
(* inventory.                                                              *)
C25_Witness ==
    \E w \in Writers, v \in Writers :
        /\ calls[w].name = "update_batch_status"
        /\ calls[w].pc = "idle"
        /\ calls[w].ret
        /\ calls[v].name = "add_bean_batch"
        /\ calls[v].pc = "idle"
        /\ calls[v].ret
        /\ calls[v].data.batch_id \in added
        /\ find_batch_by_id(files, calls[v].data.batch_id, InventoryPath) = None

(* C26: the append of add_batch adds a record whether or not the inventory *)
(* holds the batch_id by then, and the call then returns success: when two *)
(* add_batch calls with the same batch_id have both passed the duplicate   *)
(* check and neither has appended, the inventory holds no record with the  *)
(* batch_id, it holds one after the first append and two after the second. *)
C26_BothAddsSucceed ==
    [][\A w \in Writers :
          LET batch_id == calls[w].data.batch_id
          IN /\ (calls[w].pc = "append" /\ calls'[w].pc = "log")
                => CountWith(read_inventory(files', InventoryPath), batch_id)
                     = CountWith(read_inventory(files, InventoryPath), batch_id) + 1
             /\ (calls[w].name = "add_bean_batch" /\ calls[w].pc = "log"
                   /\ calls'[w].pc = "idle")
                => calls'[w].ret = TRUE /\ ret' = TRUE
             /\ \A v \in Writers \ {w} :
                    /\ (/\ calls[w].pc = "append"
                        /\ calls[v].pc = "append"
                        /\ calls[v].data.batch_id = batch_id)
                       => /\ CountWith(read_inventory(files, InventoryPath),
                                       batch_id) = 0
                          /\ calls'[w].pc = "log"
                             => CountWith(read_inventory(files', InventoryPath),
                                          batch_id) = 1
                    /\ (/\ calls[w].pc = "append"
                        /\ calls[v].name = "add_bean_batch"
                        /\ calls[v].pc = "log"
                        /\ calls[v].data.batch_id = batch_id
                        /\ calls'[w].pc = "log"
                        /\ CountWith(read_inventory(files, InventoryPath),
                                     batch_id) = 1)
                       => CountWith(read_inventory(files', InventoryPath),
                                    batch_id) = 2]_vars

(* Both writers have had success from add_batch with the same batch_id,    *)
(* and the inventory holds two batches with it.                            *)
C26_Witness ==
    /\ \A w \in Writers :
           /\ calls[w].name = "add_bean_batch"
           /\ calls[w].pc = "idle"
           /\ calls[w].ret
           /\ calls[w].data.batch_id = SampleBatch.batch_id
    /\ CountWith(read_inventory(files, InventoryPath), SampleBatch.batch_id) = 2

=============================================================================
